---- MODULE Spec2Model ----
(***************************************************************************)
(* State-machine model of charge/clients/debug_vllm_client.py:             *)
(* DebugVLLMClient and RawVLLMResponseCapture, two subclasses of the       *)
(* external OpenAIChatCompletionClient that log around the inherited       *)
(* coroutine create() and keep a history of the calls.                     *)
(*                                                                         *)
(* Python values are modelled as tagged records so that the dynamic        *)
(* checks of the code (hasattr, truthiness, isinstance, the 's' and 'd'    *)
(* format codes) behave as in the interpreter.  Strings are sequences of   *)
(* one-character strings.                                                  *)
(***************************************************************************)
EXTENDS Integers, Sequences, FiniteSets, TLC

(***************************************************************************)
(* Bounds of the model.                                                    *)
(***************************************************************************)
\* create() invocations in a sequential run (Spec)
MaxCalls == 3
\* create() invocations in flight together (ConcSpec)
MaxConcCalls == 3
\* create() invocations in the run over the wrapping inputs (WrapSpec)
WrapCalls == 1
\* lines of a multi-line text
MaxLines == 2
\* a single line is long enough to wrap into MaxRows rows, plus one character
MaxRows == 2
\* len(messages) ranges over 1..MaxMessages
MaxMessages == 2

(***************************************************************************)
(* Column widths of the format specs.                                      *)
(***************************************************************************)
ModelWidth == 91
ExtraWidth == 86
ItemWidth == 91
WrapWidth == 96
PromptWidth == 82
CompletionWidth == 78
TotalWidth == 83
FinishWidth == 82
SummaryTotalWidth == 82
SummaryFlagWidth == 84
PreviewLen == 200

(***************************************************************************)
(* Python values.                                                          *)
(***************************************************************************)
NL == "\n"

\* hasattr(obj, name) is False / the key is not in the dict
ABSENT == [t |-> "absent", s |-> <<>>, n |-> 0, items |-> <<>>]
NONE == [t |-> "none", s |-> <<>>, n |-> 0, items |-> <<>>]
StrV(s) == [t |-> "str", s |-> s, n |-> 0, items |-> <<>>]
IntV(n) == [t |-> "int", s |-> <<>>, n |-> n, items |-> <<>>]
BoolV(b) == [t |-> "bool", s |-> <<>>, n |-> IF b THEN 1 ELSE 0, items |-> <<>>]
ListV(items) == [t |-> "list", s |-> <<>>, n |-> 0, items |-> items]
\* a dict: items are <<key, value>> pairs in insertion order
DictV(items) == [t |-> "dict", s |-> <<>>, n |-> 0, items |-> items]
\* a usage object: its attributes prompt_tokens, completion_tokens, total_tokens
UsageV(p, c, tot) == [t |-> "obj", s |-> <<>>, n |-> 0, items |-> <<p, c, tot>>]

HasAttr(v) == v.t # "absent"

\* bool(v)
Truthy(v) ==
  CASE v.t = "bool" -> v.n = 1
    [] v.t = "int" -> v.n # 0
    [] v.t = "str" -> v.s # <<>>
    [] v.t = "list" -> v.items # <<>>
    [] v.t = "dict" -> v.items # <<>>
    [] v.t = "obj" -> TRUE
    [] OTHER -> FALSE

\* a and b
PyAnd(a, b) == IF Truthy(a) THEN b ELSE a

Min(a, b) == IF a < b THEN a ELSE b

Rep(c, n) == [i \in 1..n |-> c]

\* s[:n]
Take(s, n) == SubSeq(s, 1, Min(n, Len(s)))

\* s[n:]
Drop(s, n) == SubSeq(s, Min(n, Len(s)) + 1, Len(s))

\* format(s, "<w"): left-aligned, padded with spaces to at least w columns
Pad(s, w) == IF Len(s) >= w THEN s ELSE s \o Rep(" ", w - Len(s))

DigitChar(d) == <<"0", "1", "2", "3", "4", "5", "6", "7", "8", "9">>[d + 1]

RECURSIVE Digits(_)
\* str(n) for n >= 0
Digits(n) == IF n < 10 THEN <<DigitChar(n)>> ELSE Digits(n \div 10) \o <<DigitChar(n % 10)>>

\* format(n, "03d")
ZeroPad3(n) == LET d == Digits(n) IN IF Len(d) >= 3 THEN d ELSE Rep("0", 3 - Len(d)) \o d

\* str(v)
PyStr(v) ==
  CASE v.t = "str" -> v.s
    [] v.t = "int" -> Digits(v.n)
    [] v.t = "bool" -> IF v.n = 1 THEN <<"T", "r", "u", "e">> ELSE <<"F", "a", "l", "s", "e">>
    [] v.t = "none" -> <<"N", "o", "n", "e">>
    [] OTHER -> <<"<", v.t, ">">>

\* type(v).__name__
TypeName(v) == IF v.t = "none" THEN "NoneType" ELSE v.t

(***************************************************************************)
(* Exceptions.                                                             *)
(***************************************************************************)
NoErr == [exc |-> "none", origin |-> "none"]
TypeError == [exc |-> "TypeError", origin |-> "format"]
ValueError == [exc |-> "ValueError", origin |-> "format"]
AttributeError == [exc |-> "AttributeError", origin |-> "getattr"]

\* format(v, "<ws"): only str implements the 's' format code
FmtS(v, w) ==
  CASE v.t = "str" -> [err |-> NoErr, s |-> Pad(v.s, w)]
    [] v.t \in {"int", "bool"} -> [err |-> ValueError, s |-> <<>>]
    [] OTHER -> [err |-> TypeError, s |-> <<>>]

\* format(v, "<wd"): only int (and bool) implements the 'd' format code
FmtD(v, w) ==
  CASE v.t \in {"int", "bool"} -> [err |-> NoErr, s |-> Pad(Digits(v.n), w)]
    [] v.t = "str" -> [err |-> ValueError, s |-> <<>>]
    [] OTHER -> [err |-> TypeError, s |-> <<>>]

(***************************************************************************)
(* Log lines.  A line is its fixed frame (k) and its formatted field (v).  *)
(* A block of logger.info calls runs until the first one whose f-string    *)
(* raises: the lines before it are emitted, the rest are not.              *)
(***************************************************************************)
NoLine == [k |-> "none", v |-> <<>>]
Line(k, v) == [err |-> NoErr, line |-> [k |-> k, v |-> v]]
Frame(k) == Line(k, <<>>)
Fmt(k, r) == IF r.err = NoErr THEN Line(k, r.s) ELSE [err |-> r.err, line |-> NoLine]

FirstErr(a) ==
  IF \E i \in 1..Len(a) : a[i].err # NoErr
    THEN CHOOSE i \in 1..Len(a) : a[i].err # NoErr /\ \A j \in 1..(i - 1) : a[j].err = NoErr
    ELSE 0

Emit(a) ==
  LET i == FirstErr(a) IN
  IF i = 0 THEN [err |-> NoErr, lines |-> [j \in 1..Len(a) |-> a[j].line]]
  ELSE [err |-> a[i].err, lines |-> [j \in 1..(i - 1) |-> a[j].line]]

RECURSIVE Flatten(_)
Flatten(ss) == IF ss = <<>> THEN <<>> ELSE Head(ss) \o Flatten(Tail(ss))

RECURSIVE Split(_)
\* s.split('\n')
Split(s) ==
  IF \E i \in 1..Len(s) : s[i] = NL
    THEN LET i == CHOOSE i \in 1..Len(s) : s[i] = NL /\ \A j \in 1..(i - 1) : s[j] # NL
         IN <<SubSeq(s, 1, i - 1)>> \o Split(SubSeq(s, i + 1, Len(s)))
    ELSE <<s>>

(***************************************************************************)
(* DebugVLLMClient.create: the request block, then the response block.     *)
(***************************************************************************)
\* kwargs.get('model', 'N/A')
ModelOf(kwargs) == IF HasAttr(kwargs.model) THEN kwargs.model ELSE StrV(<<"N", "/", "A">>)

\* for key, value in kwargs['extra_body'].items(): one line per pair
ExtraBodyLines(extra_body) ==
  IF extra_body.t # "dict" THEN <<[err |-> AttributeError, line |-> NoLine]>>
  ELSE [i \in 1..Len(extra_body.items) |->
          LET key == extra_body.items[i][1]
              value == extra_body.items[i][2]
              r == FmtS(value, ExtraWidth)
          IN Fmt("extra_param", [err |-> r.err, s |-> PyStr(key) \o <<":", " ">> \o r.s])]

RequestBlock(call_id, messages, kwargs) ==
     <<Frame("top"),
       Line("request_title", ZeroPad3(call_id)),
       Frame("sep"),
       Fmt("model", FmtS(ModelOf(kwargs), ModelWidth)),
       Line("messages", Digits(messages))>>
  \o (IF HasAttr(kwargs.extra_body)
        THEN <<Frame("extra_header")>> \o ExtraBodyLines(kwargs.extra_body)
        ELSE <<>>)
  \o <<Frame("bottom")>>

\* line[:96]
Chunk(line) == Take(line, WrapWidth)

RestSkipsOne(line) == Drop(line, WrapWidth + 1)

\* line = line[96:]
Rest(line) == Drop(line, WrapWidth)

RECURSIVE WrapLine(_)
\* while line: emit line[:96] padded to 96 columns; line = line[96:]
WrapLine(line) ==
  IF line = <<>> THEN <<>> ELSE <<Pad(Chunk(line), WrapWidth)>> \o WrapLine(Rest(line))

\* for line in text.split('\n'): the rows of every line, in order
WrapText(text) == Flatten([i \in 1..Len(Split(text)) |-> WrapLine(Split(text)[i])])

Rows(k, rows) == [i \in 1..Len(rows) |-> Line(k, rows[i])]

RECURSIVE Continuation(_)
\* while remaining: emit remaining[:91]; remaining = remaining[91:]
Continuation(remaining) ==
  IF remaining = <<>> THEN <<>>
  ELSE <<Pad(Take(remaining, ItemWidth), ItemWidth)>> \o Continuation(Drop(remaining, ItemWidth))

\* the rows of one item of a list content: "[idx] " and the first 91 characters,
\* then the continuation rows
ItemLines(idx, item) ==
     <<Line("item_row", <<"[">> \o Digits(idx) \o <<"]", " ">>
                          \o Pad(Take(PyStr(item), ItemWidth), ItemWidth))>>
  \o Rows("item_cont", Continuation(Drop(PyStr(item), ItemWidth)))

ContentSection(content) ==
  IF HasAttr(content) /\ Truthy(content)
    THEN    <<Frame("content_header"), Frame("rule")>>
         \o (IF content.t = "list"
               THEN Flatten([i \in 1..Len(content.items) |-> ItemLines(i - 1, content.items[i])])
               ELSE Rows("content_row", WrapText(PyStr(content))))
    ELSE <<>>

ThoughtSection(thought) ==
  IF HasAttr(thought) /\ Truthy(thought)
    THEN    <<Frame("rule"), Frame("thought_header"), Frame("rule")>>
         \o Rows("thought_row", WrapText(PyStr(thought)))
    ELSE <<>>

\* response.usage.<name> formatted with 'd'
FmtAttrD(v, w) == IF HasAttr(v) THEN FmtD(v, w) ELSE [err |-> AttributeError, s |-> <<>>]

UsageSection(usage) ==
  IF HasAttr(usage) /\ Truthy(usage)
    THEN    <<Frame("rule"), Frame("usage_header"),
              Fmt("prompt_tokens", FmtAttrD(usage.items[1], PromptWidth)),
              Fmt("completion_tokens", FmtAttrD(usage.items[2], CompletionWidth))>>
         \o (IF HasAttr(usage.items[3])
               THEN <<Fmt("total_tokens", FmtD(usage.items[3], TotalWidth))>>
               ELSE <<>>)
    ELSE <<>>

FinishSection(finish_reason) ==
  IF HasAttr(finish_reason)
    THEN <<Frame("rule"), Fmt("finish_reason", FmtS(finish_reason, FinishWidth))>>
    ELSE <<>>

ResponseBlock(call_id, r) ==
     <<Frame("top"), Line("response_title", ZeroPad3(call_id)), Frame("sep")>>
  \o ContentSection(r.content)
  \o ThoughtSection(r.thought)
  \o UsageSection(r.usage)
  \o FinishSection(r.finish_reason)
  \o <<Frame("bottom")>>

\* the dict appended to raw_responses
DebugRecord(call_id, ref, r) ==
  [call_id |-> call_id,
   response |-> ref,
   has_content |-> BoolV(HasAttr(r.content) /\ Truthy(r.content)),
   has_thought |-> BoolV(HasAttr(r.thought) /\ Truthy(r.thought))]

(***************************************************************************)
(* DebugVLLMClient.get_response_summary.                                   *)
(***************************************************************************)
SummaryEntry(idx, resp_info, n) ==
     <<[k |-> "call", v |-> ZeroPad3(resp_info.call_id)],
       [k |-> "has_content", v |-> Pad(PyStr(resp_info.has_content), SummaryFlagWidth)],
       [k |-> "has_thought", v |-> Pad(PyStr(resp_info.has_thought), SummaryFlagWidth)]>>
  \o (IF idx < n THEN <<[k |-> "rule", v |-> <<>>]>> ELSE <<>>)

SummaryReport(client) ==
     <<[k |-> "top", v |-> <<>>],
       [k |-> "summary_title", v |-> <<>>],
       [k |-> "sep", v |-> <<>>],
       [k |-> "total", v |-> Pad(Digits(client.call_count), SummaryTotalWidth)],
       [k |-> "rule", v |-> <<>>]>>
  \o Flatten([i \in 1..Len(client.raw_responses) |->
                SummaryEntry(i, client.raw_responses[i], Len(client.raw_responses))])
  \o <<[k |-> "bottom", v |-> <<>>]>>

(***************************************************************************)
(* RawVLLMResponseCapture.create.                                          *)
(***************************************************************************)
RawRequestBlock(call_id) ==
  <<Frame("raw_rule"), Line("raw_sending", ZeroPad3(call_id)), Frame("raw_rule_indented")>>

RECURSIVE ReplaceDoubleNL(_)
\* s.replace('\n\n', ' '): the leftmost pair, then the rest of the string
ReplaceDoubleNL(s) ==
  IF \E i \in 1..(Len(s) - 1) : s[i] = NL /\ s[i + 1] = NL
    THEN LET i == CHOOSE i \in 1..(Len(s) - 1) :
                    /\ s[i] = NL /\ s[i + 1] = NL
                    /\ \A j \in 1..(i - 1) : ~(s[j] = NL /\ s[j + 1] = NL)
         IN SubSeq(s, 1, i - 1) \o <<" ">> \o ReplaceDoubleNL(SubSeq(s, i + 2, Len(s)))
    ELSE s

\* s.replace('\n', ' ')
ReplaceNL(s) == [i \in 1..Len(s) |-> IF s[i] = NL THEN " " ELSE s[i]]

\* has_content = hasattr(response, 'content') and response.content
RawHasContent(r) == PyAnd(BoolV(HasAttr(r.content)), r.content)

\* has_thought = hasattr(response, 'thought') and response.thought
RawHasThought(r) == PyAnd(BoolV(HasAttr(r.thought)), r.thought)

RawContentSection(r) ==
  IF Truthy(RawHasContent(r))
    THEN IF r.content.t = "list"
           THEN    <<Line("raw_list_len", Digits(Len(r.content.items)))>>
                \o [i \in 1..Len(r.content.items) |->
                      Line("raw_item", Digits(i - 1) \o <<":", TypeName(r.content.items[i]), ":">>
                                         \o PyStr(r.content.items[i]))]
           ELSE <<Line("raw_content_len", Digits(Len(PyStr(r.content)))),
                  Line("raw_content", PyStr(r.content))>>
    ELSE <<>>

RawThoughtSection(r) ==
  IF Truthy(RawHasThought(r))
    THEN LET thought_str == ReplaceNL(ReplaceDoubleNL(PyStr(r.thought))) IN
            <<Line("raw_thought_len", Digits(Len(thought_str))),
              Line("raw_thought_preview", Take(thought_str, PreviewLen))>>
         \o (IF Len(thought_str) > PreviewLen
               THEN <<Line("raw_thought_more", Digits(Len(thought_str) - PreviewLen))>>
               ELSE <<>>)
    ELSE <<>>

RawUsageSection(usage) ==
  IF HasAttr(usage) /\ Truthy(usage)
    THEN IF HasAttr(usage.items[1]) /\ HasAttr(usage.items[2])
           THEN <<Line("raw_usage", PyStr(usage.items[1]) \o <<",">> \o PyStr(usage.items[2]))>>
           ELSE <<[err |-> AttributeError, line |-> NoLine]>>
    ELSE <<>>

RawFinishSection(finish_reason) ==
  IF HasAttr(finish_reason) THEN <<Line("raw_finish", PyStr(finish_reason))>> ELSE <<>>

RawResponseBlock(r) ==
     <<Frame("raw_received"), Frame("raw_dash")>>
  \o RawContentSection(r)
  \o RawThoughtSection(r)
  \o RawUsageSection(r.usage)
  \o RawFinishSection(r.finish_reason)
  \o <<Frame("raw_end")>>

\* the dict appended to raw_json_responses
RawRecord(call_id, ref, r) ==
  [call_id |-> call_id,
   response |-> ref,
   has_content |-> RawHasContent(r),
   has_thought |-> RawHasThought(r)]

(***************************************************************************)
(* The inputs of an invocation: the messages and options the caller        *)
(* passes, and what the inherited create() does with them (returns a       *)
(* CreateResult with the given attributes, or raises).                     *)
(***************************************************************************)
APIConnectionError == [exc |-> "APIConnectionError", origin |-> "delegate"]
RateLimitError == [exc |-> "RateLimitError", origin |-> "delegate"]

NoFields == [content |-> ABSENT, thought |-> ABSENT, usage |-> ABSENT, finish_reason |-> ABSENT]
Returns(fields) == [kind |-> "response", fields |-> fields, err |-> NoErr]
Raises(err) == [kind |-> "error", fields |-> NoFields, err |-> err]

Hello == StrV(<<"H", "e", "l", "l", "o">>)
Stop == StrV(<<"s", "t", "o", "p">>)
Hm == StrV(<<"h", "m">>)
FullUsage == UsageV(IntV(10), IntV(5), IntV(15))

BasicKwargs == [model |-> StrV(<<"m">>), extra_body |-> ABSENT]
BasicResponse ==
  [content |-> Hello, thought |-> NONE, usage |-> FullUsage, finish_reason |-> Stop]

Effort == <<StrV(<<"e", "f", "f", "o", "r", "t">>), StrV(<<"h", "i", "g", "h">>)>>
TopK == <<StrV(<<"t", "o", "p", "_", "k">>), IntV(20)>>

KwargsSet ==
  {[model |-> m, extra_body |-> e] :
     m \in {ABSENT, StrV(<<"m">>)},
     e \in {ABSENT, DictV(<<>>), DictV(<<Effort>>), DictV(<<TopK>>), DictV(<<Effort, TopK>>)}}

Scenario(messages, kwargs, outcome) ==
  [messages |-> messages, kwargs |-> kwargs, outcome |-> outcome]

NoneNoneResponse ==
  [content |-> NONE, thought |-> NONE, usage |-> UsageV(IntV(10), IntV(5), ABSENT),
   finish_reason |-> Stop]
ListResponse ==
  [content |-> ListV(<<Hello, IntV(7)>>), thought |-> Hm, usage |-> NONE, finish_reason |-> NONE]

\* the sequential run: few inputs, several invocations
Scenarios ==
       {Scenario(m, BasicKwargs, Returns(BasicResponse)) : m \in 1..MaxMessages}
  \cup {Scenario(1, BasicKwargs, Raises(e)) : e \in {APIConnectionError, RateLimitError}}
  \cup {Scenario(1, BasicKwargs, Returns(r)) : r \in {NoneNoneResponse, ListResponse}}
  \cup {Scenario(1, [model |-> ABSENT, extra_body |-> DictV(<<Effort, TopK>>)], Returns(BasicResponse))}

RawScenarios ==
       {Scenario(1, BasicKwargs, Returns(r)) : r \in {BasicResponse, ListResponse}}
  \cup {Scenario(1, BasicKwargs, Raises(APIConnectionError))}

\* the concurrent run
ConcScenarios ==
       {Scenario(1, BasicKwargs, Returns(r)) : r \in {BasicResponse, ListResponse}}
  \cup {Scenario(1, BasicKwargs, Raises(APIConnectionError)),
        Scenario(1, [model |-> ABSENT, extra_body |-> DictV(<<TopK>>)], Returns(BasicResponse))}

\* a line of n characters; the variant ends with a space
XLine(n) == Rep("x", n)
SpaceLine(n) == IF n = 0 THEN <<>> ELSE Rep("x", n - 1) \o <<" ">>

LineLens ==
  {0, 1} \cup UNION {{k * WrapWidth - 1, k * WrapWidth, k * WrapWidth + 1} : k \in 1..MaxRows}

RECURSIVE JoinLines(_)
\* '\n'.join(lines)
JoinLines(lines) ==
  IF Len(lines) = 1 THEN lines[1] ELSE lines[1] \o <<NL>> \o JoinLines(Tail(lines))

\* single lines of every length of LineLens, and texts of up to MaxLines lines
Texts ==
       {XLine(n) : n \in LineLens \ {0}}
  \cup {SpaceLine(n) : n \in LineLens \ {0}}
  \cup UNION {{JoinLines(ls) : ls \in [1..k -> {<<>>, XLine(WrapWidth + 1)}]} : k \in 2..MaxLines}

AttributeResponses ==
       {[content |-> c, thought |-> t, usage |-> FullUsage, finish_reason |-> Stop] :
          c \in {ABSENT, NONE, StrV(<<>>), Hello, ListV(<<Hello, IntV(7)>>),
                 ListV(<<StrV(XLine(ItemWidth + 1)), StrV(<<>>)>>)},
          t \in {ABSENT, NONE, StrV(<<>>), Hm}}
  \cup {[content |-> NONE, thought |-> NONE, usage |-> u, finish_reason |-> f] :
          u \in {ABSENT, NONE, FullUsage, UsageV(IntV(10), IntV(5), ABSENT),
                 UsageV(IntV(10), IntV(5), NONE), UsageV(IntV(10), ABSENT, ABSENT)},
          f \in {ABSENT, NONE, Stop}}

\* the run over the logging inputs: one attribute, one option or one text at a time
WrapScenarios ==
       {Scenario(1, BasicKwargs, Returns([BasicResponse EXCEPT !.content = StrV(s)])) : s \in Texts}
  \cup {Scenario(1, BasicKwargs, Returns([BasicResponse EXCEPT !.thought = StrV(s)])) : s \in Texts}
  \cup {Scenario(1, BasicKwargs, Returns(r)) : r \in AttributeResponses}
  \cup {Scenario(1, k, Returns(BasicResponse)) : k \in KwargsSet}
  \cup {Scenario(m, BasicKwargs, Returns(BasicResponse)) : m \in 1..MaxMessages}
  \cup {Scenario(1, BasicKwargs, Raises(RateLimitError))}

RawWrapScenarios ==
       RawScenarios
  \cup {Scenario(1, BasicKwargs, Returns([BasicResponse EXCEPT !.thought = StrV(s)])) :
          s \in {XLine(PreviewLen + 1),
                 <<"a", NL, NL, NL, "b", NL, "c">>}}
  \cup {Scenario(1, BasicKwargs, Returns([BasicResponse EXCEPT !.usage = u])) :
          u \in {UsageV(IntV(10), ABSENT, ABSENT), UsageV(IntV(10), NONE, ABSENT)}}

(***************************************************************************)
(* State.                                                                  *)
(*   debugClient, rawCapture: the two client instances                     *)
(*   tasks: the create() invocations, in the order they were started       *)
(*   heap: the CreateResult objects, by reference                          *)
(*   delegate_calls: the calls the inherited create() received             *)
(*   summary: the last report of get_response_summary                      *)
(***************************************************************************)
VARIABLES debugClient, rawCapture, tasks, heap, delegate_calls, summary

vars == <<debugClient, rawCapture, tasks, heap, delegate_calls, summary>>

Debug == "DebugVLLMClient"
Raw == "RawVLLMResponseCapture"

NullRef == 0
Pending == [kind |-> "pending", ref |-> NullRef, err |-> NoErr]
Returned(ref) == [kind |-> "returned", ref |-> ref, err |-> NoErr]
Raised(err) == [kind |-> "raised", ref |-> NullRef, err |-> err]

Init == /\ debugClient = [call_count |-> 0, raw_responses |-> <<>>]
        /\ rawCapture = [call_count |-> 0, raw_json_responses |-> <<>>]
        /\ tasks = <<>>
        /\ heap = <<>>
        /\ delegate_calls = <<>>
        /\ summary = <<>>

IncrCallCountLost(call_count) == call_count

\* self.call_count += 1
IncrCallCount(call_count) == call_count + 1

RecordCallIdLate(call_id, call_count) == call_count

\* 'call_id': call_id, the local bound before the await
RecordCallId(call_id, call_count) == call_id

AppendRecordFirst(history, record) == <<record>> \o history

\* self.raw_responses.append(record)
AppendRecord(history, record) == Append(history, record)

PropagateWrapped(err) == [exc |-> "RuntimeError", origin |-> "create"]

\* the await is in no try block: the exception leaves create() as it is
Propagate(err) == err

ReturnValueNone(response) == NullRef

\* return response
ReturnValue(response) == response

\* whether a new invocation may start: at most `limit` in the run, and in a
\* sequential run only when the one before has finished
MayStart(limit, sequential) ==
  /\ Len(tasks) < limit
  /\ sequential => \A t \in 1..Len(tasks) : tasks[t].pc = "done"

NewTask(cls, sc, call_id, pc, log, result) ==
  [cls |-> cls, messages |-> sc.messages, kwargs |-> sc.kwargs, outcome |-> sc.outcome,
   pc |-> pc, call_id |-> call_id, response |-> NullRef, result |-> result, log |-> log]

DelegateCall(t, sc) ==
  [task |-> t, messages |-> sc.messages, kwargs |-> sc.kwargs, produced |-> NullRef]

\* DebugVLLMClient.create up to the await of super().create(messages, **kwargs)
DebugCreateCall(sc, limit, sequential) ==
  /\ MayStart(limit, sequential)
  /\ LET count == IncrCallCount(debugClient.call_count)
         call_id == count
         req == Emit(RequestBlock(call_id, sc.messages, sc.kwargs))
     IN /\ debugClient' = [debugClient EXCEPT !.call_count = count]
        /\ IF req.err = NoErr
             THEN /\ tasks' = Append(tasks, NewTask(Debug, sc, call_id, "awaiting", req.lines, Pending))
                  /\ delegate_calls' = Append(delegate_calls, DelegateCall(Len(tasks) + 1, sc))
             ELSE /\ tasks' = Append(tasks, NewTask(Debug, sc, call_id, "done", req.lines, Raised(req.err)))
                  /\ UNCHANGED delegate_calls
  /\ UNCHANGED <<rawCapture, heap, summary>>

Produced(t, ref) ==
  [i \in 1..Len(delegate_calls) |->
     IF delegate_calls[i].task = t /\ delegate_calls[i].produced = NullRef
       THEN [delegate_calls[i] EXCEPT !.produced = ref]
       ELSE delegate_calls[i]]

\* the awaited call returns a CreateResult: DebugVLLMClient.create from the
\* assignment of response to its return
DebugCreateReturn(t) ==
  /\ tasks[t].cls = Debug
  /\ tasks[t].pc = "awaiting"
  /\ tasks[t].outcome.kind = "response"
  /\ LET ref == Len(heap) + 1
         r == tasks[t].outcome.fields
         call_id == RecordCallId(tasks[t].call_id, debugClient.call_count)
         resp == Emit(ResponseBlock(tasks[t].call_id, r))
     IN /\ heap' = Append(heap, r)
        /\ delegate_calls' = Produced(t, ref)
        /\ IF resp.err = NoErr
             THEN /\ debugClient' =
                       [debugClient EXCEPT !.raw_responses = AppendRecord(@, DebugRecord(call_id, ref, r))]
                  /\ tasks' = [tasks EXCEPT ![t].pc = "done", ![t].response = ref,
                                            ![t].log = @ \o resp.lines,
                                            ![t].result = Returned(ReturnValue(ref))]
             ELSE /\ UNCHANGED debugClient
                  /\ tasks' = [tasks EXCEPT ![t].pc = "done", ![t].response = ref,
                                            ![t].log = @ \o resp.lines,
                                            ![t].result = Raised(resp.err)]
  /\ UNCHANGED <<rawCapture, summary>>

\* the awaited call raises
DebugCreateRaise(t) ==
  /\ tasks[t].cls = Debug
  /\ tasks[t].pc = "awaiting"
  /\ tasks[t].outcome.kind = "error"
  /\ tasks' = [tasks EXCEPT ![t].pc = "done", ![t].result = Raised(Propagate(tasks[t].outcome.err))]
  /\ UNCHANGED <<debugClient, rawCapture, heap, delegate_calls, summary>>

GetResponseSummary ==
  /\ summary' = SummaryReport(debugClient)
  /\ UNCHANGED <<debugClient, rawCapture, tasks, heap, delegate_calls>>

\* RawVLLMResponseCapture.create up to the await of super().create(messages, **kwargs)
RawCreateCall(sc, limit, sequential) ==
  /\ MayStart(limit, sequential)
  /\ LET count == rawCapture.call_count + 1
         req == Emit(RawRequestBlock(count))
     IN /\ rawCapture' = [rawCapture EXCEPT !.call_count = count]
        /\ tasks' = Append(tasks, NewTask(Raw, sc, count, "awaiting", req.lines, Pending))
        /\ delegate_calls' = Append(delegate_calls, DelegateCall(Len(tasks) + 1, sc))
  /\ UNCHANGED <<debugClient, heap, summary>>

RawCreateReturn(t) ==
  /\ tasks[t].cls = Raw
  /\ tasks[t].pc = "awaiting"
  /\ tasks[t].outcome.kind = "response"
  /\ LET ref == Len(heap) + 1
         r == tasks[t].outcome.fields
         resp == Emit(RawResponseBlock(r))
     IN /\ heap' = Append(heap, r)
        /\ delegate_calls' = Produced(t, ref)
        /\ IF resp.err = NoErr
             THEN /\ rawCapture' =
                       [rawCapture EXCEPT !.raw_json_responses =
                                             Append(@, RawRecord(tasks[t].call_id, ref, r))]
                  /\ tasks' = [tasks EXCEPT ![t].pc = "done", ![t].response = ref,
                                            ![t].log = @ \o resp.lines,
                                            ![t].result = Returned(ref)]
             ELSE /\ UNCHANGED rawCapture
                  /\ tasks' = [tasks EXCEPT ![t].pc = "done", ![t].response = ref,
                                            ![t].log = @ \o resp.lines,
                                            ![t].result = Raised(resp.err)]
  /\ UNCHANGED <<debugClient, summary>>

RawCreateRaise(t) ==
  /\ tasks[t].cls = Raw
  /\ tasks[t].pc = "awaiting"
  /\ tasks[t].outcome.kind = "error"
  /\ tasks' = [tasks EXCEPT ![t].pc = "done", ![t].result = Raised(tasks[t].outcome.err)]
  /\ UNCHANGED <<debugClient, rawCapture, heap, delegate_calls, summary>>

Run(scenarios, rawScenarios, limit, sequential) ==
  \/ \E sc \in scenarios : DebugCreateCall(sc, limit, sequential)
  \/ \E t \in 1..Len(tasks) : DebugCreateReturn(t)
  \/ \E t \in 1..Len(tasks) : DebugCreateRaise(t)
  \/ GetResponseSummary
  \/ \E sc \in rawScenarios : RawCreateCall(sc, limit, sequential)
  \/ \E t \in 1..Len(tasks) : RawCreateReturn(t)
  \/ \E t \in 1..Len(tasks) : RawCreateRaise(t)

\* invocations run one after another
Next == Run(Scenarios, RawScenarios, MaxCalls, TRUE)
Spec == Init /\ [][Next]_vars

\* invocations in flight together: cooperative tasks that interleave at the await
ConcNext == Run(ConcScenarios, RawScenarios, MaxConcCalls, FALSE)
ConcSpec == Init /\ [][ConcNext]_vars

\* one invocation after another over the logging inputs
WrapNext == Run(WrapScenarios, RawWrapScenarios, WrapCalls, TRUE)
WrapSpec == Init /\ [][WrapNext]_vars

(***************************************************************************)
(* Properties.                                                             *)
(***************************************************************************)
Quiescent == \A t \in 1..Len(tasks) : tasks[t].pc = "done"

TasksOf(cls) == {t \in 1..Len(tasks) : tasks[t].cls = cls}

ReturnedOf(cls) == {t \in TasksOf(cls) : tasks[t].result.kind = "returned"}

FailedOf(cls) == {t \in TasksOf(cls) : tasks[t].result.kind = "raised"}

\* the invocations that raised an exception of create()'s own logging code
OwnErrorOf(cls) == {t \in FailedOf(cls) : tasks[t].result.err.origin # "delegate"}

HistoryOf(cls) ==
  IF cls = Debug THEN debugClient.raw_responses ELSE rawCapture.raw_json_responses

Ids(history) == [i \in 1..Len(history) |-> history[i].call_id]

StrictlyIncreasing(ids) == \A i \in 1..Len(ids) : \A j \in 1..Len(ids) : i < j => ids[i] < ids[j]

Distinct(ids) == \A i \in 1..Len(ids) : \A j \in 1..Len(ids) : i # j => ids[i] # ids[j]

\* the position of invocation t among the invocations of its class
Rank(t) == Cardinality({u \in TasksOf(tasks[t].cls) : u <= t})

DelegateCallsOf(t) == {i \in 1..Len(delegate_calls) : delegate_calls[i].task = t}

RecordsOf(t) ==
  {i \in 1..Len(HistoryOf(tasks[t].cls)) : HistoryOf(tasks[t].cls)[i].call_id = tasks[t].call_id}

Kinds(log) == {log[i].k : i \in 1..Len(log)}

Ceil(a, b) == (a + b - 1) \div b

\* C1 as stated: after N sequential invocations of DebugVLLMClient.create,
\* call_count = N and raw_responses holds N records with call_id 1..N in order.
\* Read here over the runs in which no invocation raised an error of create()'s
\* own, so that what refutes it is a delegate call that raised.
C1_Original ==
  (Quiescent /\ OwnErrorOf(Debug) = {}) =>
     LET N == Cardinality(TasksOf(Debug)) IN
       /\ debugClient.call_count = N
       /\ Ids(debugClient.raw_responses) = [i \in 1..N |-> i]

\* C1 amended: after N sequential invocations call_count = N, raw_responses holds
\* one record per invocation that returned, and when all N returned the call_ids
\* are 1..N in list order.
C1_CountAndHistory ==
  Quiescent =>
     LET N == Cardinality(TasksOf(Debug)) IN
       /\ debugClient.call_count = N
       /\ Len(debugClient.raw_responses) = Cardinality(ReturnedOf(Debug))
       /\ ReturnedOf(Debug) = TasksOf(Debug) => Ids(debugClient.raw_responses) = [i \in 1..N |-> i]

C1_Witness ==
  /\ Quiescent
  /\ Cardinality(TasksOf(Debug)) >= 2
  /\ ReturnedOf(Debug) = TasksOf(Debug)
  /\ Len(debugClient.raw_responses) = Cardinality(TasksOf(Debug))

\* C2: when the delegate call raises, the step of create() that receives the
\* exception leaves raw_responses as it was and hands the caller that very
\* exception; the step that started the invocation left raw_responses alone too.
C2_DelegateFailure ==
  [][\A t \in 1..Len(tasks') :
       (tasks'[t].cls = Debug /\ tasks'[t].outcome.kind = "error") =>
          /\ t > Len(tasks) => debugClient'.raw_responses = debugClient.raw_responses
          /\ (t <= Len(tasks) /\ tasks[t].pc = "awaiting" /\ tasks'[t].pc = "done") =>
                /\ debugClient'.raw_responses = debugClient.raw_responses
                /\ tasks'[t].result = Raised(tasks'[t].outcome.err)]_vars

C2_Witness ==
  \E t \in TasksOf(Debug) :
     /\ tasks[t].pc = "done"
     /\ tasks[t].outcome.kind = "error"
     /\ DelegateCallsOf(t) # {}
     /\ tasks[t].result = Raised(tasks[t].outcome.err)
     /\ Len(debugClient.raw_responses) >= 1

\* C3: an invocation of create() (either class) that returns hands back the
\* reference of the object the delegate produced for it, the object's fields are
\* those the delegate set, and the record appended for it holds the same reference.
C3_SameResponse ==
  \A t \in 1..Len(tasks) :
     tasks[t].result.kind = "returned" =>
        /\ Cardinality(DelegateCallsOf(t)) = 1
        /\ \A i \in DelegateCallsOf(t) :
              /\ delegate_calls[i].produced # NullRef
              /\ tasks[t].result.ref = delegate_calls[i].produced
              /\ heap[delegate_calls[i].produced] = tasks[t].outcome.fields
              /\ Cardinality(RecordsOf(t)) = 1
              /\ \A j \in RecordsOf(t) :
                    HistoryOf(tasks[t].cls)[j].response = delegate_calls[i].produced

C3_Witness ==
  \E t \in ReturnedOf(Debug) : \E u \in ReturnedOf(Raw) :
     /\ tasks[t].result.ref # NullRef
     /\ tasks[u].result.ref # NullRef
     /\ tasks[t].result.ref # tasks[u].result.ref
     /\ RecordsOf(t) # {} /\ RecordsOf(u) # {}

\* C4 as stated: every invocation of DebugVLLMClient.create calls the delegate
\* exactly once, whatever the messages and the options are.
C4_DelegateOnce ==
  \A t \in TasksOf(Debug) : Cardinality(DelegateCallsOf(t)) = 1

\* C5 as stated: whenever the delegate returned a response, create() returns
\* normally and has appended a record.
C5_NoOwnError ==
  \A t \in TasksOf(Debug) :
     (tasks[t].pc = "done" /\ tasks[t].response # NullRef) =>
        /\ tasks[t].result.kind = "returned"
        /\ RecordsOf(t) # {}

RowsIn(log, k) ==
  LET IsRow(l) == l.k = k
      rows == SelectSeq(log, IsRow)
  IN [i \in 1..Len(rows) |-> rows[i].v]

C7_NoneNone ==
  \A t \in TasksOf(Debug) :
     LET f == tasks[t].outcome.fields IN
     (tasks[t].pc = "done" /\ tasks[t].response # NullRef /\ f.content = NONE /\ f.thought = NONE) =>
        /\ Kinds(tasks[t].log) \cap {"content_header", "content_row", "item_row",
                                     "thought_header", "thought_row"} = {}
        /\ (HasAttr(f.usage) /\ Truthy(f.usage)) => "usage_header" \in Kinds(tasks[t].log)
        /\ HasAttr(f.finish_reason) => "finish_reason" \in Kinds(tasks[t].log)
        /\ \E i \in RecordsOf(t) :
              /\ debugClient.raw_responses[i].has_content = BoolV(FALSE)
              /\ debugClient.raw_responses[i].has_thought = BoolV(FALSE)

\* C8 as stated: in every record of raw_responses and of raw_json_responses,
\* has_content and has_thought are booleans, True exactly when the content,
\* respectively the thought, of the recorded response is present and non-empty.
C8_BooleanFlags ==
  \A cls \in {Debug, Raw} :
     \A i \in 1..Len(HistoryOf(cls)) :
        LET rec == HistoryOf(cls)[i]
            f == heap[rec.response]
        IN /\ rec.has_content = BoolV(HasAttr(f.content) /\ Truthy(f.content))
           /\ rec.has_thought = BoolV(HasAttr(f.thought) /\ Truthy(f.thought))

SummaryTotal(report) ==
  LET IsTotal(l) == l.k = "total" IN SelectSeq(report, IsTotal)

SummaryCalls(report) ==
  LET IsCall(l) == l.k = "call" IN SelectSeq(report, IsCall)

\* C9: in a sequential run the k-th invocation of DebugVLLMClient.create has
\* identifier k whatever became of the earlier ones, call_count is the number of
\* invocations, raw_responses holds exactly the identifiers of the invocations
\* that returned, in strictly increasing order, and once all have finished the
\* summary's total is its number of per-call entries plus the failed invocations.
C9_IdsAndSummary ==
  /\ debugClient.call_count = Cardinality(TasksOf(Debug))
  /\ \A t \in TasksOf(Debug) : tasks[t].call_id = Rank(t)
  /\ {debugClient.raw_responses[i].call_id : i \in 1..Len(debugClient.raw_responses)}
       = {tasks[t].call_id : t \in ReturnedOf(Debug)}
  /\ StrictlyIncreasing(Ids(debugClient.raw_responses))
  /\ Quiescent =>
        LET report == SummaryReport(debugClient) IN
        /\ Len(SummaryCalls(report)) = Len(debugClient.raw_responses)
        /\ Len(SummaryTotal(report)) = 1
        /\ SummaryTotal(report)[1].v
             = Pad(Digits(Len(SummaryCalls(report)) + Cardinality(FailedOf(Debug))), SummaryTotalWidth)

C9_Witness ==
  /\ Quiescent
  /\ summary = SummaryReport(debugClient)
  /\ Len(SummaryCalls(summary)) >= 1
  /\ \E t \in FailedOf(Debug) : \E u \in ReturnedOf(Debug) :
        t < u /\ tasks[t].result.err.origin = "delegate"

\* C10 as stated: with several invocations in flight, every invocation has an
\* identifier of its own, every invocation that returned has appended exactly one
\* record carrying its identifier, and raw_responses is in strictly increasing
\* call_id order.
C10_Original ==
  /\ \A t \in TasksOf(Debug) : \A u \in TasksOf(Debug) : t # u => tasks[t].call_id # tasks[u].call_id
  /\ \A t \in ReturnedOf(Debug) : Cardinality(RecordsOf(t)) = 1
  /\ StrictlyIncreasing(Ids(debugClient.raw_responses))

\* C10 amended: with several invocations in flight, every invocation has an
\* identifier of its own, every invocation that returned has appended exactly one
\* record, which carries its identifier and its response, and the call_ids in
\* raw_responses are pairwise distinct (not necessarily increasing).
C10_DistinctIds ==
  /\ \A t \in TasksOf(Debug) : \A u \in TasksOf(Debug) : t # u => tasks[t].call_id # tasks[u].call_id
  /\ \A t \in ReturnedOf(Debug) :
        /\ Cardinality(RecordsOf(t)) = 1
        /\ \A i \in RecordsOf(t) : debugClient.raw_responses[i].response = tasks[t].result.ref
  /\ Len(debugClient.raw_responses) = Cardinality(ReturnedOf(Debug))
  /\ Distinct(Ids(debugClient.raw_responses))

C10_Witness ==
  /\ Cardinality(ReturnedOf(Debug)) >= 2
  /\ Len(debugClient.raw_responses) >= 2
  /\ debugClient.raw_responses[1].call_id > debugClient.raw_responses[2].call_id

====
